---- MODULE Spec2Model ----
(***************************************************************************)
(* The /transcribe ingestion pipeline of minutes-backend.                  *)
(*                                                                         *)
(* The repository holds three versions of the handler:                     *)
(*   variant 1  src/src/transcriptionRoutes.js lines 16-413                *)
(*   variant 2  src/src/transcriptionRoutes.js lines 447-681               *)
(*   variant 3  src/unnamed/part_000          lines 30-254                 *)
(* A request runs one of them.  Each action below is one synchronous block *)
(* of the handler, from one await to the next; the remote call or store    *)
(* write that the await waits for returns one of its possible outcomes.    *)
(*                                                                         *)
(* Numbers are held in hundredths: the JavaScript number 0.5 is 50, 1 is   *)
(* 100.  Sequences are 1-based: segment index i of the code is position    *)
(* i + 1 of the sequence.                                                  *)
(***************************************************************************)
EXTENDS Integers, Sequences, FiniteSets, TLC

\* ---------------------------------------------------------------- bounds
MaxSegs == 2
MaxEntries == 2
MaxTasks == 1

Reqs == {1, 2}
Variants == {1, 2, 3}
Paths == {"tmp/a", "tmp/b"}
Texts == {"", "hello team"}

\* ------------------------------------------------------ JavaScript values
JUndef == [t |-> "undefined", n |-> 0, s |-> ""]
JNull == [t |-> "null", n |-> 0, s |-> ""]
JNum(x) == [t |-> "number", n |-> x, s |-> ""]
JStr(x) == [t |-> "string", n |-> 0, s |-> x]
JObj(x) == [t |-> "object", n |-> 0, s |-> x]

\* typeof v === "number"
IsNumber(v) == v.t = "number"
\* v is null or undefined: what ?? and != null test
Nullish(v) == v.t \in {"undefined", "null"}
\* the truthiness || tests: 0, "", null and undefined are falsy
Truthy(v) ==
  CASE v.t = "number" -> v.n # 0
    [] v.t = "string" -> v.s # ""
    [] v.t = "object" -> TRUE
    [] OTHER -> FALSE
\* a ?? b
Coalesce(a, b) == IF Nullish(a) THEN b ELSE a
\* a || b
OrElse(a, b) == IF Truthy(a) THEN a ELSE b

\* ------------------------------------------------------------------ state
VARIABLES
  pc,                   \* the handler's position, per request
  variant,              \* which version of the handler serves the request
  hasFile,              \* req.file is set
  fixedPath,            \* the upload's temporary path
  storage,              \* the paths that exist under tmp/
  unlinkPending,        \* fs.unlink calls that have not completed yet
  transcriptText, segments,
  moodScore, dominantEmotion, emotionBreakdown,
  segmentEmotionMap, segmentEmotionsForDB,
  meetingId, summary, tasks, err,
  meetings, transcripts, emotions, summaries, taskRows,   \* the tables
  nextId,               \* the identifier the store assigns next
  response,             \* what res.json sent, per request
  log,                  \* the calls, writes, unlinks and responses made, in order
  faults                \* the failures the request met

locals == <<transcriptText, segments, moodScore, dominantEmotion,
            emotionBreakdown, segmentEmotionMap, segmentEmotionsForDB,
            meetingId, summary, tasks, err>>
tables == <<meetings, transcripts, emotions, summaries, taskRows, nextId>>
files == <<fixedPath, storage, unlinkPending>>
vars == <<pc, variant, hasFile, files, locals, tables, response, log, faults>>

NoResponse == [status |-> 0]
EmptyMap == [k \in {} |-> JUndef]
\* the default keeps a placeholder bullet
PlaceholderSummary ==
  [bullets |-> 1, decisions |-> 0, risks |-> 0, followUpQuestions |-> 0]
EmptySummary == [bullets |-> 0, decisions |-> 0, risks |-> 0, followUpQuestions |-> 0]

Init ==
  /\ pc = [r \in Reqs |-> "idle"]
  /\ variant = [r \in Reqs |-> 1]
  /\ hasFile = [r \in Reqs |-> FALSE]
  /\ fixedPath = [r \in Reqs |-> ""]
  /\ storage = {}
  /\ unlinkPending = {}
  /\ transcriptText = [r \in Reqs |-> ""]
  /\ segments = [r \in Reqs |-> <<>>]
  /\ moodScore = [r \in Reqs |-> JNull]
  /\ dominantEmotion = [r \in Reqs |-> JNull]
  /\ emotionBreakdown = [r \in Reqs |-> JNull]
  /\ segmentEmotionMap = [r \in Reqs |-> EmptyMap]
  /\ segmentEmotionsForDB = [r \in Reqs |-> <<>>]
  /\ meetingId = [r \in Reqs |-> 0]
  /\ summary = [r \in Reqs |-> EmptySummary]
  /\ tasks = [r \in Reqs |-> 0]
  /\ err = [r \in Reqs |-> ""]
  /\ meetings = <<>>
  /\ transcripts = <<>>
  /\ emotions = <<>>
  /\ summaries = <<>>
  /\ taskRows = <<>>
  /\ nextId = 1
  /\ response = [r \in Reqs |-> NoResponse]
  /\ log = [r \in Reqs |-> <<>>]
  /\ faults = [r \in Reqs |-> {}]

\* ---------------------------------------------------------------- helpers
Logged(r, e) == \E i \in 1..Len(log[r]) : log[r][i] = e
Count(r, e) == Cardinality({i \in 1..Len(log[r]) : log[r][i] = e})
\* e1 occurs in the log of r, and every e2 comes after its first occurrence
Before(r, e1, e2) ==
  \A j \in 1..Len(log[r]) :
    log[r][j] = e2 => \E i \in 1..(j - 1) : log[r][i] = e1

\* the transcription's segments: n of them, ordered by start
SegmentsOf(n) == [i \in 1..n |-> [start |-> (i - 1) * 1000, end |-> i * 1000]]

\* ---------------------------------------------------------------- arrival
\* every upload is stored under the same name
ReusedPath == "tmp/a"
\* multer names the stored upload with 16 random bytes: a name no upload had
\* before.  Names are interchangeable, so the first unused one is taken.
FreshPath == CHOOSE p \in Paths \ {fixedPath[q] : q \in Reqs} : TRUE

\* multer's upload.single("audio"): stores the upload, if any, under a generated
\* name in tmp/ and sets req.file
Arrive(r, vs) ==
  /\ pc[r] = "idle"
  /\ \E v \in vs, f \in BOOLEAN :
       /\ variant' = [variant EXCEPT ![r] = v]
       /\ hasFile' = [hasFile EXCEPT ![r] = f]
       /\ IF f
            THEN LET p == FreshPath IN
                   /\ fixedPath' = [fixedPath EXCEPT ![r] = p]
                   /\ storage' = storage \cup {p}
            ELSE UNCHANGED <<fixedPath, storage>>
  /\ pc' = [pc EXCEPT ![r] = "start"]
  /\ UNCHANGED <<unlinkPending, locals, tables, response, log, faults>>

\* the check is missing and the handler goes on without a file
CheckFileSkipped(r) ==
  /\ pc[r] = "start"
  /\ pc' = [pc EXCEPT ![r] = "transcribe"]
  /\ UNCHANGED <<variant, hasFile, files, locals, tables, response, log, faults>>

\* if (!req.file) return res.status(400).json({ error: "No audio file uploaded" })
CheckFile(r) ==
  /\ pc[r] = "start"
  /\ IF hasFile[r]
       THEN /\ pc' = [pc EXCEPT ![r] = "transcribe"]
            /\ UNCHANGED <<response, log>>
       ELSE /\ pc' = [pc EXCEPT ![r] = "done"]
            /\ response' = [response EXCEPT ![r] =
                 [status |-> 400, error |-> "No audio file uploaded",
                  hasDetails |-> FALSE]]
            /\ log' = [log EXCEPT ![r] = Append(@, "respond")]
  /\ UNCHANGED <<variant, hasFile, files, locals, tables, faults>>

\* ---------------------------------------------------------- transcription
\* what groq.audio.transcriptions.create can do: reject, or resolve with a text
\* and n segments
TranscriptionOutcomes ==
  {[ok |-> FALSE, text |-> "", n |-> 0]}
    \cup {[ok |-> TRUE, text |-> t, n |-> n] : t \in Texts, n \in 0..MaxSegs}

\* the error is swallowed where it is thrown and the handler goes on to persist
ThrowSwallowed(r, message, fault) ==
  /\ pc' = [pc EXCEPT ![r] = "meeting"]
  /\ err' = [err EXCEPT ![r] = message]
  /\ faults' = [faults EXCEPT ![r] = @ \cup {fault}]

\* throw inside the try block: control goes to the catch clause with err
Throw(r, message, fault) ==
  /\ pc' = [pc EXCEPT ![r] = "catch"]
  /\ err' = [err EXCEPT ![r] = message]
  /\ faults' = [faults EXCEPT ![r] = @ \cup {fault}]

\* 1) readFileSync, the speech-to-text call, transcriptText and segments
Transcribe(r) ==
  /\ pc[r] = "transcribe"
  /\ log' = [log EXCEPT ![r] = Append(@, "call:transcribe")]
  /\ \E o \in TranscriptionOutcomes :
       IF o.ok
         THEN /\ transcriptText' = [transcriptText EXCEPT ![r] = o.text]
              /\ segments' = [segments EXCEPT ![r] = SegmentsOf(o.n)]
              /\ pc' = [pc EXCEPT ![r] = "overall"]
              /\ UNCHANGED <<err, faults>>
         ELSE /\ Throw(r, "Connection error", "transcribe:throw")
              /\ UNCHANGED <<transcriptText, segments>>
  /\ UNCHANGED <<variant, hasFile, files, moodScore, dominantEmotion,
                 emotionBreakdown, segmentEmotionMap, segmentEmotionsForDB,
                 meetingId, summary, tasks, tables, response>>

\* ----------------------------------------------------------- overall tone
\* what the overall-tone completion can do: reject, resolve with content that
\* JSON.parse rejects, or resolve with a JSON object
OverallOutcomes ==
  { [kind |-> "throw", mood |-> JUndef, dom |-> JUndef, bd |-> JUndef],
    [kind |-> "badjson", mood |-> JUndef, dom |-> JUndef, bd |-> JUndef],
    [kind |-> "json", mood |-> JUndef, dom |-> JUndef, bd |-> JUndef],
    [kind |-> "json", mood |-> JNum(70), dom |-> JStr("happy"), bd |-> JObj("breakdown")],
    [kind |-> "json", mood |-> JNum(0), dom |-> JStr("bored"), bd |-> JNull] }

\* the call is made for an empty transcript too
OverallRunsAlways(text) == TRUE
\* if (transcriptText.length > 0)
OverallRuns(text) == text # ""

\* 2) overall emotion analysis: skipped when the transcript is empty; the call
\* is awaited outside the inner try, JSON.parse and the three ?? inside it
OverallTone(r) ==
  /\ pc[r] = "overall"
  /\ IF OverallRuns(transcriptText[r])
       THEN /\ log' = [log EXCEPT ![r] = Append(@, "call:overall")]
            /\ \E o \in OverallOutcomes :
                 CASE o.kind = "throw" ->
                        /\ Throw(r, "Connection error", "overall:throw")
                        /\ UNCHANGED <<moodScore, dominantEmotion, emotionBreakdown>>
                   [] o.kind = "badjson" ->
                        /\ pc' = [pc EXCEPT ![r] = "segtone"]
                        /\ faults' = [faults EXCEPT ![r] = @ \cup {"overall:badjson"}]
                        /\ UNCHANGED <<moodScore, dominantEmotion, emotionBreakdown, err>>
                   [] OTHER ->
                        /\ pc' = [pc EXCEPT ![r] = "segtone"]
                        /\ moodScore' = [moodScore EXCEPT ![r] = Coalesce(o.mood, JNull)]
                        /\ dominantEmotion' =
                             [dominantEmotion EXCEPT ![r] = Coalesce(o.dom, JNull)]
                        /\ emotionBreakdown' =
                             [emotionBreakdown EXCEPT ![r] = Coalesce(o.bd, JNull)]
                        /\ UNCHANGED <<err, faults>>
       ELSE /\ pc' = [pc EXCEPT ![r] = "segtone"]
            /\ UNCHANGED <<moodScore, dominantEmotion, emotionBreakdown, err,
                           faults, log>>
  /\ UNCHANGED <<variant, hasFile, files, transcriptText, segments,
                 segmentEmotionMap, segmentEmotionsForDB, meetingId, summary,
                 tasks, tables, response>>

\* ----------------------------------------------------------- segment tone
\* the entries the analyzer can return for a transcription of n segments:
\* the first segment with a label and a score in range; the last segment with
\* a zero score (the same index as the first when n = 1); the first index out
\* of range, no label and a score above 1; no index and a score that is no
\* number; an index that is no number and a score below 0
EntryCases(n) ==
  { [index |-> JNum(0), emotion |-> JStr("angry"), score |-> JNum(70)],
    [index |-> JNum(n - 1), emotion |-> JStr("happy"), score |-> JNum(0)],
    [index |-> JNum(n), emotion |-> JUndef, score |-> JNum(150)],
    [index |-> JUndef, emotion |-> JStr("stressed"), score |-> JStr("high")],
    [index |-> JStr("one"), emotion |-> JStr("neutral"), score |-> JNum(-20)] }
SeqsUpTo(S, k) == UNION {[1..m -> S] : m \in 0..k}

\* what the segment-tone completion can do: reject, resolve with content that
\* JSON.parse rejects, with an object whose "segments" is no array, or with an
\* array of entries
SegmentOutcomes(n) ==
  {[kind |-> k, arr |-> <<>>] : k \in {"throw", "badjson", "notarray"}}
    \cup {[kind |-> "array", arr |-> a] : a \in SeqsUpTo(EntryCases(n), MaxEntries)}

\* variant 1: typeof s.score === "number" && s.score >= 0 && s.score <= 1 ? s.score : 0.5
ScoreV1(score) ==
  IF IsNumber(score) /\ score.n >= 0 /\ score.n <= 100 THEN score ELSE JNum(50)
\* variants 2 and 3: typeof s.score === "number" ? s.score : 0.5
ScoreV2(score) == IF IsNumber(score) THEN score ELSE JNum(50)
CleanScore(v, score) == IF v = 1 THEN ScoreV1(score) ELSE ScoreV2(score)
\* s.emotion || "neutral"
CleanEmotion(emotion) == OrElse(emotion, JStr("neutral"))

\* Map.prototype.set and get; get answers undefined for a key never set
MapSet(m, k, val) == [x \in DOMAIN m \cup {k} |-> IF x = k THEN val ELSE m[x]]
MapHas(m, k) == k \in DOMAIN m
MapGet(m, k) ==
  IF MapHas(m, k) THEN m[k] ELSE [emotion |-> JUndef, score |-> JUndef]

\* segmentPayload[s.index]?.start ?? null (and .end): the payload has one item
\* per segment, so only an index 0..length-1 finds one
PayloadHas(segs, index) == IsNumber(index) /\ index.n >= 0 /\ index.n < Len(segs)
PayloadStart(segs, index) ==
  IF PayloadHas(segs, index) THEN JNum(segs[index.n + 1].start) ELSE JNull
PayloadEnd(segs, index) ==
  IF PayloadHas(segs, index) THEN JNum(segs[index.n + 1].end) ELSE JNull

\* the forEach over the analyzer's entries: the map after it ...
RECURSIVE EmotionMapOf(_, _)
EmotionMapOf(v, arr) ==
  IF arr = <<>>
    THEN EmptyMap
    ELSE LET s == arr[Len(arr)] IN
         MapSet(EmotionMapOf(v, SubSeq(arr, 1, Len(arr) - 1)), s.index,
                [emotion |-> CleanEmotion(s.emotion), score |-> CleanScore(v, s.score)])
\* ... and the list pushed to, one item per entry, in the entries' order
EmotionsForDBOf(v, arr, segs) ==
  [k \in 1..Len(arr) |->
     [segment_index |-> arr[k].index,
      start |-> PayloadStart(segs, arr[k].index),
      end |-> PayloadEnd(segs, arr[k].index),
      emotion |-> CleanEmotion(arr[k].emotion),
      score |-> CleanScore(v, arr[k].score)]]

\* the call is made for an empty segment list too
SegmentToneRunsAlways(segs) == TRUE
\* if (segments.length > 0)
SegmentToneRuns(segs) == Len(segs) > 0

\* 3) per-segment emotion analysis: skipped when there are no segments; the
\* call is awaited outside the inner try, the parse and the forEach inside it
SegmentTone(r) ==
  /\ pc[r] = "segtone"
  /\ IF SegmentToneRuns(segments[r])
       THEN /\ log' = [log EXCEPT ![r] = Append(@, "call:segtone")]
            /\ \E o \in SegmentOutcomes(Len(segments[r])) :
                 CASE o.kind = "throw" ->
                        /\ Throw(r, "Connection error", "segtone:throw")
                        /\ UNCHANGED <<segmentEmotionMap, segmentEmotionsForDB>>
                   [] o.kind = "badjson" ->
                        /\ pc' = [pc EXCEPT ![r] = "meeting"]
                        /\ faults' = [faults EXCEPT ![r] = @ \cup {"segtone:badjson"}]
                        /\ UNCHANGED <<segmentEmotionMap, segmentEmotionsForDB, err>>
                   [] o.kind = "notarray" ->
                        \* variant 1 takes [] for it; in variants 2 and 3 forEach is
                        \* no function of it and the TypeError is caught
                        /\ pc' = [pc EXCEPT ![r] = "meeting"]
                        /\ UNCHANGED <<segmentEmotionMap, segmentEmotionsForDB, err,
                                       faults>>
                   [] OTHER ->
                        /\ pc' = [pc EXCEPT ![r] = "meeting"]
                        /\ segmentEmotionMap' =
                             [segmentEmotionMap EXCEPT ![r] = EmotionMapOf(variant[r], o.arr)]
                        /\ segmentEmotionsForDB' =
                             [segmentEmotionsForDB EXCEPT ![r] =
                                EmotionsForDBOf(variant[r], o.arr, segments[r])]
                        /\ UNCHANGED <<err, faults>>
       ELSE /\ pc' = [pc EXCEPT ![r] = "meeting"]
            /\ UNCHANGED <<segmentEmotionMap, segmentEmotionsForDB, err, faults, log>>
  /\ UNCHANGED <<variant, hasFile, files, transcriptText, segments, moodScore,
                 dominantEmotion, emotionBreakdown, meetingId, summary, tasks,
                 tables, response>>

\* ------------------------------------------------------------ persistence
\* what an insert can return: a row (meetings) or no error, or an error; the
\* meetings insert can also return neither an error nor a row
MeetingOutcomes == {"ok", "error", "norow"}
InsertOutcomes == {"ok", "error"}

\* mood_score of the meetings row: variant 1 stores moodScore, variant 2
\* analysis.moodScore != null ? Math.round(analysis.moodScore * 100) : null
MoodToStore(v, mood) ==
  IF v = 2 /\ IsNumber(mood) THEN JNum(mood.n * 100) ELSE mood

\* variant 3 reads whisper.duration while it builds the row: whisper (and
\* analysis) are declared nowhere, so the read throws a ReferenceError
RowThrows(v) == v = 3

\* only the error is tested, and a missing row goes unnoticed
MeetingFatalErrorOnly(v, outcome) == outcome = "error"
\* only the row is tested, and an error that comes with a row goes unnoticed
MeetingFatalNoRowOnly(v, outcome) == outcome = "norow"

\* whether the handler gives up after the meetings insert returned:
\* variant 1 throws on an error and then reads meetingRow.id, a TypeError
\* when no row came back; variants 2 and 3 test meetErr || !meetingRow
MeetingFatal(v, outcome) == outcome \in {"error", "norow"}

\* 4) create the meeting
CreateMeeting(r) ==
  /\ pc[r] = "meeting"
  /\ IF RowThrows(variant[r])
       THEN /\ Throw(r, "whisper is not defined", "meeting:reference")
            /\ UNCHANGED <<meetingId, tables, response, log>>
       ELSE \E o \in MeetingOutcomes :
              /\ IF o = "ok"
                   THEN /\ meetings' = Append(meetings,
                             [id |-> nextId, by |-> r,
                              mood_score |-> MoodToStore(variant[r], moodScore[r]),
                              dominant_emotion |-> dominantEmotion[r],
                              emotion_breakdown |-> emotionBreakdown[r]])
                        /\ nextId' = nextId + 1
                   ELSE UNCHANGED <<meetings, nextId>>
              /\ UNCHANGED <<transcripts, emotions, summaries, taskRows>>
              /\ IF MeetingFatal(variant[r], o)
                   THEN IF variant[r] = 1
                          THEN /\ Throw(r, IF o = "error"
                                             THEN "Failed to create meeting"
                                             ELSE "Cannot read properties of null",
                                        "meeting:" \o o)
                               /\ log' = [log EXCEPT ![r] = Append(@, "insert:meetings")]
                               /\ UNCHANGED <<meetingId, response>>
                          ELSE \* return res.status(500).json({ error: ... })
                               /\ pc' = [pc EXCEPT ![r] = "done"]
                               /\ faults' = [faults EXCEPT ![r] = @ \cup {"meeting:" \o o}]
                               /\ response' = [response EXCEPT ![r] =
                                    [status |-> 500,
                                     error |-> "Failed to create meeting record",
                                     hasDetails |-> FALSE]]
                               /\ log' = [log EXCEPT ![r] =
                                            @ \o <<"insert:meetings", "respond">>]
                               /\ UNCHANGED <<meetingId, err>>
                   ELSE /\ pc' = [pc EXCEPT ![r] = "transcripts"]
                        /\ meetingId' = [meetingId EXCEPT ![r] =
                                           IF o = "ok" THEN nextId ELSE 0]
                        /\ log' = [log EXCEPT ![r] = Append(@, "insert:meetings")]
                        /\ faults' = [faults EXCEPT ![r] =
                                        IF o = "ok" THEN @ ELSE @ \cup {"meeting:" \o o}]
                        /\ UNCHANGED <<err, response>>
  /\ UNCHANGED <<variant, hasFile, files, transcriptText, segments, moodScore,
                 dominantEmotion, emotionBreakdown, segmentEmotionMap,
                 segmentEmotionsForDB, summary, tasks>>

\* emotion and emotion_score of the transcripts row of segment index i:
\* variant 1 takes the map's entry, or null and null when there is none;
\* variants 2 and 3 take get(i)?.emotion || null and get(i)?.score || null
RowEmotion(v, m, i) ==
  IF v = 1
    THEN IF MapHas(m, JNum(i)) THEN m[JNum(i)].emotion ELSE JNull
    ELSE OrElse(MapGet(m, JNum(i)).emotion, JNull)
RowScore(v, m, i) ==
  IF v = 1
    THEN IF MapHas(m, JNum(i)) THEN m[JNum(i)].score ELSE JNull
    ELSE OrElse(MapGet(m, JNum(i)).score, JNull)

\* segments.map: one transcripts row per segment, in the segments' order
TranscriptRowsOf(r) ==
  [k \in 1..Len(segments[r]) |->
     [meeting_id |-> meetingId[r], by |-> r, index |-> k - 1,
      start |-> segments[r][k].start, end |-> segments[r][k].end,
      emotion |-> RowEmotion(variant[r], segmentEmotionMap[r], k - 1),
      emotion_score |-> RowScore(variant[r], segmentEmotionMap[r], k - 1)]]

\* 5) save the transcript segments; the insert's error is logged (variant 1)
\* or not looked at (variants 2 and 3)
InsertTranscripts(r) ==
  /\ pc[r] = "transcripts"
  /\ pc' = [pc EXCEPT ![r] = "emotions"]
  /\ IF Len(segments[r]) > 0
       THEN /\ log' = [log EXCEPT ![r] = Append(@, "insert:transcripts")]
            /\ \E o \in InsertOutcomes :
                 IF o = "ok"
                   THEN /\ transcripts' = transcripts \o TranscriptRowsOf(r)
                        /\ UNCHANGED faults
                   ELSE /\ faults' = [faults EXCEPT ![r] = @ \cup {"transcripts:error"}]
                        /\ UNCHANGED transcripts
       ELSE UNCHANGED <<transcripts, faults, log>>
  /\ UNCHANGED <<variant, hasFile, files, locals, meetings, emotions, summaries,
                 taskRows, nextId, response>>

\* the rows of the emotions table (variant 1), of emotion_segments (variant 2:
\* { ...row, meeting_id: meetingId }); variant 3 inserts segmentEmotionsForDB
\* as it is, and its items have no meeting_id
EmotionRowsOf(r) ==
  [k \in 1..Len(segmentEmotionsForDB[r]) |->
     [meeting_id |-> IF variant[r] = 3 THEN 0 ELSE meetingId[r], by |-> r,
      segment_index |-> segmentEmotionsForDB[r][k].segment_index,
      start |-> segmentEmotionsForDB[r][k].start,
      end |-> segmentEmotionsForDB[r][k].end,
      emotion |-> segmentEmotionsForDB[r][k].emotion,
      score |-> segmentEmotionsForDB[r][k].score]]

\* after the emotions step variant 1 goes on to the summary; 2 and 3 finish
AfterEmotions(v) == IF v = 1 THEN "summarycall" ELSE "cleanup"

\* 6) save the per-segment emotions
InsertEmotions(r) ==
  /\ pc[r] = "emotions"
  /\ pc' = [pc EXCEPT ![r] = AfterEmotions(variant[r])]
  /\ IF Len(segmentEmotionsForDB[r]) > 0
       THEN /\ log' = [log EXCEPT ![r] = Append(@, "insert:emotions")]
            /\ \E o \in InsertOutcomes :
                 IF o = "ok"
                   THEN /\ emotions' = emotions \o EmotionRowsOf(r)
                        /\ UNCHANGED faults
                   ELSE /\ faults' = [faults EXCEPT ![r] = @ \cup {"emotions:error"}]
                        /\ UNCHANGED emotions
       ELSE UNCHANGED <<emotions, faults, log>>
  /\ UNCHANGED <<variant, hasFile, files, locals, meetings, transcripts,
                 summaries, taskRows, nextId, response>>

\* ------------------------------------------------- summary and tasks (v. 1)
FullSummary == [bullets |-> 2, decisions |-> 1, risks |-> 1, followUpQuestions |-> 1]

\* what the summary/tasks completion can do: reject, resolve with content
\* that JSON.parse rejects, with the JSON text null, with an object that has
\* no summary and no tasks, or with a summary and k task items
SummaryOutcomes ==
  {[kind |-> k, summary |-> EmptySummary, tasks |-> 0] :
     k \in {"throw", "badjson", "null", "empty"}}
    \cup {[kind |-> "json", summary |-> FullSummary, tasks |-> k] : k \in 0..MaxTasks}

\* 7) the summary/tasks call, after the meeting and its segments are written:
\* the call and the reads of analysis.summary and analysis.tasks are outside
\* any inner try, JSON.parse alone is inside one
SummaryCall(r) ==
  /\ pc[r] = "summarycall"
  /\ log' = [log EXCEPT ![r] = Append(@, "call:summary")]
  /\ \E o \in SummaryOutcomes :
       CASE o.kind = "throw" ->
              /\ Throw(r, "Connection error", "summary:throw")
              /\ UNCHANGED <<summary, tasks>>
         [] o.kind = "null" ->
              \* JSON.parse("null") is null: analysis.summary is a TypeError
              /\ Throw(r, "Cannot read properties of null", "summary:null")
              /\ UNCHANGED <<summary, tasks>>
         [] o.kind = "badjson" ->
              /\ pc' = [pc EXCEPT ![r] = "summaries"]
              /\ faults' = [faults EXCEPT ![r] = @ \cup {"summary:badjson"}]
              /\ summary' = [summary EXCEPT ![r] = EmptySummary]
              /\ tasks' = [tasks EXCEPT ![r] = 0]
              /\ UNCHANGED err
         [] OTHER ->
              /\ pc' = [pc EXCEPT ![r] = "summaries"]
              /\ summary' = [summary EXCEPT ![r] = o.summary]
              /\ tasks' = [tasks EXCEPT ![r] = o.tasks]
              /\ UNCHANGED <<err, faults>>
  /\ UNCHANGED <<variant, hasFile, files, transcriptText, segments, moodScore,
                 dominantEmotion, emotionBreakdown, segmentEmotionMap,
                 segmentEmotionsForDB, meetingId, tables, response>>

\* 8) save the summary
InsertSummary(r) ==
  /\ pc[r] = "summaries"
  /\ pc' = [pc EXCEPT ![r] = "tasks"]
  /\ log' = [log EXCEPT ![r] = Append(@, "insert:summaries")]
  /\ \E o \in InsertOutcomes :
       IF o = "ok"
         THEN /\ summaries' = Append(summaries,
                   [meeting_id |-> meetingId[r], by |-> r, summary |-> summary[r]])
              /\ UNCHANGED faults
         ELSE /\ faults' = [faults EXCEPT ![r] = @ \cup {"summaries:error"}]
              /\ UNCHANGED summaries
  /\ UNCHANGED <<variant, hasFile, files, locals, meetings, transcripts, emotions,
                 taskRows, nextId, response>>

\* 9) save the tasks, if there are any
InsertTasks(r) ==
  /\ pc[r] = "tasks"
  /\ pc' = [pc EXCEPT ![r] = "cleanup"]
  /\ IF tasks[r] > 0
       THEN /\ log' = [log EXCEPT ![r] = Append(@, "insert:tasks")]
            /\ \E o \in InsertOutcomes :
                 IF o = "ok"
                   THEN /\ taskRows' = taskRows \o
                             [k \in 1..tasks[r] |->
                                [meeting_id |-> meetingId[r], by |-> r, item |-> k]]
                        /\ UNCHANGED faults
                   ELSE /\ faults' = [faults EXCEPT ![r] = @ \cup {"tasks:error"}]
                        /\ UNCHANGED taskRows
       ELSE UNCHANGED <<taskRows, faults, log>>
  /\ UNCHANGED <<variant, hasFile, files, locals, meetings, transcripts, emotions,
                 summaries, nextId, response>>

\* --------------------------------------------------- cleanup and response
\* fs.unlink(path, () => {}): the delete is handed to the file system and the
\* handler goes on at once
Unlink(p) == unlinkPending' = unlinkPending \cup {p}

\* clean up file
Cleanup(r) ==
  /\ pc[r] = "cleanup"
  /\ pc' = [pc EXCEPT ![r] = "respond"]
  /\ Unlink(fixedPath[r])
  /\ log' = [log EXCEPT ![r] = Append(@, "unlink")]
  /\ UNCHANGED <<variant, hasFile, fixedPath, storage, locals, tables, response,
                 faults>>

\* 10) return res.json({ meetingId, transcript, segments, ..., emotion })
Respond(r) ==
  /\ pc[r] = "respond"
  /\ pc' = [pc EXCEPT ![r] = "done"]
  /\ response' = [response EXCEPT ![r] =
       [status |-> 200, meetingId |-> meetingId[r],
        transcript |-> transcriptText[r], segments |-> segments[r],
        moodScore |-> moodScore[r], dominantEmotion |-> dominantEmotion[r],
        emotionBreakdown |-> emotionBreakdown[r],
        segmentEmotions |-> segmentEmotionsForDB[r],
        hasSummary |-> variant[r] = 1,
        summary |-> summary[r], tasks |-> tasks[r]]]
  /\ log' = [log EXCEPT ![r] = Append(@, "respond")]
  /\ UNCHANGED <<variant, hasFile, files, locals, tables, faults>>

\* catch (err): if (req.file?.path) fs.unlink(req.file.path, () => {})
Catch(r) ==
  /\ pc[r] = "catch"
  /\ pc' = [pc EXCEPT ![r] = "respond500"]
  /\ IF hasFile[r]
       THEN /\ Unlink(fixedPath[r])
            /\ log' = [log EXCEPT ![r] = Append(@, "unlink")]
       ELSE UNCHANGED <<unlinkPending, log>>
  /\ UNCHANGED <<variant, hasFile, fixedPath, storage, locals, tables, response,
                 faults>>

\* return res.status(500).json({ error, details: err?.message || String(err) })
RespondError(r) ==
  /\ pc[r] = "respond500"
  /\ pc' = [pc EXCEPT ![r] = "done"]
  /\ response' = [response EXCEPT ![r] =
       [status |-> 500, error |-> "Failed to process meeting",
        hasDetails |-> TRUE, details |-> err[r]]]
  /\ log' = [log EXCEPT ![r] = Append(@, "respond")]
  /\ UNCHANGED <<variant, hasFile, files, locals, tables, faults>>

\* the file system completes a pending unlink: the file is removed, or the
\* delete fails and the no-op callback drops the error
UnlinkComplete(p) ==
  /\ p \in unlinkPending
  /\ unlinkPending' = unlinkPending \ {p}
  /\ \E removed \in BOOLEAN :
       storage' = IF removed THEN storage \ {p} ELSE storage
  /\ UNCHANGED <<pc, variant, hasFile, fixedPath, locals, tables, response, log,
                 faults>>

Next ==
  \/ Arrive(1, Variants)
  \/ CheckFile(1)
  \/ Transcribe(1)
  \/ OverallTone(1)
  \/ SegmentTone(1)
  \/ CreateMeeting(1)
  \/ InsertTranscripts(1)
  \/ InsertEmotions(1)
  \/ SummaryCall(1)
  \/ InsertSummary(1)
  \/ InsertTasks(1)
  \/ Cleanup(1)
  \/ Respond(1)
  \/ Catch(1)
  \/ RespondError(1)
  \/ \E p \in Paths : UnlinkComplete(p)

Spec == Init /\ [][Next]_vars

\* ------------------------------------------------------------- properties
Rows(t) == {t[i] : i \in 1..Len(t)}
Dependents == Rows(transcripts) \cup
              {[meeting_id |-> x.meeting_id, by |-> x.by] : x \in Rows(emotions)} \cup
              Rows(summaries) \cup Rows(taskRows)
DependentInserts ==
  {"insert:transcripts", "insert:emotions", "insert:summaries", "insert:tasks"}
Responded(r) == response[r].status # 0
MeetingInsertFailed(r) == faults[r] \cap {"meeting:error", "meeting:norow"} # {}
DependentInsertFailed(r) ==
  faults[r] \cap {"transcripts:error", "emotions:error", "summaries:error",
                  "tasks:error"} # {}
ValidIndex(r, index) == IsNumber(index) /\ index.n >= 0 /\ index.n < Len(segments[r])

\* C1: for every request that arrived with a file, the deletion of the
\* temporary file was triggered before the response was sent, on every path
C1_CleanupBeforeResponse ==
  \A r \in Reqs :
    (hasFile[r] /\ Logged(r, "respond")) => Before(r, "unlink", "respond")

\* C2: once the response of a request with a file is sent, the temporary file
\* is no longer on storage, whatever the outcome and also while the delete is
\* pending or after it failed
C2_NoFileAfterResponse ==
  \A r \in Reqs :
    (hasFile[r] /\ Responded(r)) => fixedPath[r] \notin storage

\* C3: every dependent row carries the identifier of a meetings row that the
\* same request inserted, and no dependent insert is attempted before the
\* request's meetings insert
C3_DependentsReferenceOwnMeeting ==
  /\ \A x \in Dependents :
       \E m \in Rows(meetings) : m.id = x.meeting_id /\ m.by = x.by
  /\ \A r \in Reqs : \A e \in DependentInserts : Before(r, "insert:meetings", e)
C3_Witness ==
  /\ Len(transcripts) > 0 /\ Len(emotions) > 0
  /\ Len(summaries) > 0 /\ Len(taskRows) > 0

\* C4: when the meetings insert returns an error or no row, the request ends
\* with HTTP 500 and attempts no insert into a dependent table
C4_MeetingFailureIsFatal ==
  \A r \in Reqs :
    MeetingInsertFailed(r) =>
      /\ \A e \in DependentInserts : ~Logged(r, e)
      /\ pc[r] \in {"catch", "respond500", "done"}
      /\ pc[r] = "done" => response[r].status = 500
C4_Witness ==
  \E r \in Reqs :
    /\ "meeting:norow" \in faults[r]
    /\ pc[r] = "done" /\ response[r].status = 500

\* C5: when the overall-tone call or the segment-tone call itself throws, the
\* request still reaches the meetings insert and ends with HTTP 200
C5_ToneCallFailureNonFatal ==
  \A r \in Reqs :
    (faults[r] \cap {"overall:throw", "segtone:throw"} # {} /\ pc[r] = "done") =>
      /\ Logged(r, "insert:meetings")
      /\ response[r].status = 200

\* C6: when the overall-tone or the segment-tone call returns content that is
\* no JSON, the stage's outputs stay null or empty, no fatal error follows and
\* the meetings insert is performed
C6_MalformedJsonReachesPersistence ==
  \A r \in Reqs :
    /\ "overall:badjson" \in faults[r] =>
         moodScore[r] = JNull /\ dominantEmotion[r] = JNull /\ emotionBreakdown[r] = JNull
    /\ "segtone:badjson" \in faults[r] =>
         segmentEmotionsForDB[r] = <<>> /\ segmentEmotionMap[r] = EmptyMap
    /\ (faults[r] \cap {"overall:badjson", "segtone:badjson"} # {} /\ pc[r] = "done") =>
         Logged(r, "insert:meetings")

\* C7: when the speech-to-text call fails, the request ends with HTTP 500;
\* the call was made once, no analysis call was made and no write attempted
C7_TranscriptionFailureIsFatal ==
  \A r \in Reqs :
    "transcribe:throw" \in faults[r] =>
      /\ log[r][1] = "call:transcribe"
      /\ \A i \in 2..Len(log[r]) : log[r][i] \in {"unlink", "respond"}
      /\ \A x \in Rows(meetings) \cup Dependents : x.by # r
      /\ pc[r] \in {"catch", "respond500", "done"}
      /\ pc[r] = "done" => response[r].status = 500
C7_Witness ==
  \E r \in Reqs :
    /\ "transcribe:throw" \in faults[r]
    /\ pc[r] = "done" /\ response[r].status = 500

\* C8: every score persisted in the emotions table is a number in [0,1]
C8_PersistedScoresInRange ==
  \A x \in Rows(emotions) :
    IsNumber(x.score) /\ x.score.n >= 0 /\ x.score.n <= 100

\* C9: every segment emotion persisted or returned has a segment index i with
\* 0 <= i < the number of transcript segments of its request
C9_SegmentIndicesValid ==
  /\ \A x \in Rows(emotions) : ValidIndex(x.by, x.segment_index)
  /\ \A r \in Reqs :
       response[r].status = 200 =>
         \A k \in 1..Len(response[r].segmentEmotions) :
           ValidIndex(r, response[r].segmentEmotions[k].segment_index)

\* C10: after a successful meetings insert, an error returned by a dependent
\* insert does not abort the request: the later dependent inserts are still
\* attempted, the meetings row stays and the response is HTTP 200 with the
\* meetingId
C10_DependentFailureNonFatal ==
  \A r \in Reqs :
    (DependentInsertFailed(r) /\ pc[r] = "done") =>
      /\ response[r].status = 200
      /\ response[r].meetingId = meetingId[r]
      /\ \E m \in Rows(meetings) : m.id = meetingId[r] /\ m.by = r
      /\ variant[r] = 1 => Logged(r, "insert:summaries")

\* the place of a logged event in the stage order of the pipeline
Rank(e) ==
  CASE e = "call:transcribe" -> 1
    [] e = "call:overall" -> 2
    [] e = "call:segtone" -> 3
    [] e = "call:summary" -> 4
    [] e = "insert:meetings" -> 5
    [] e \in DependentInserts -> 6
    [] e = "unlink" -> 7
    [] OTHER -> 8
TranscriptionDone(r) ==
  Logged(r, "call:transcribe") /\ "transcribe:throw" \notin faults[r]
MeetingsOf(r) == {m \in Rows(meetings) : m.by = r}

\* C11: within a request the stages run in the order transcription, overall
\* tone, segment tone, summary/task extraction, meetings insert, dependent
\* inserts, cleanup, response; the summary/task call comes before the meetings
\* insert and before every dependent write
C11_StagesInOrder ==
  \A r \in Reqs :
    /\ \A i, j \in 1..Len(log[r]) : i < j => Rank(log[r][i]) <= Rank(log[r][j])
    /\ Logged(r, "call:summary") => Before(r, "call:summary", "insert:meetings")

\* C12: when the transcript text is empty, no overall-tone call is made and
\* moodScore, dominantEmotion and emotionBreakdown are null in the meetings
\* row and in the response
C12_EmptyTranscriptSkipsOverall ==
  \A r \in Reqs :
    (TranscriptionDone(r) /\ transcriptText[r] = "") =>
      /\ ~Logged(r, "call:overall")
      /\ \A m \in MeetingsOf(r) :
           /\ m.mood_score = JNull
           /\ m.dominant_emotion = JNull
           /\ m.emotion_breakdown = JNull
      /\ response[r].status = 200 =>
           /\ response[r].moodScore = JNull
           /\ response[r].dominantEmotion = JNull
           /\ response[r].emotionBreakdown = JNull
C12_Witness ==
  \E r \in Reqs :
    /\ TranscriptionDone(r) /\ transcriptText[r] = ""
    /\ MeetingsOf(r) # {}
    /\ response[r].status = 200

\* C13: when the transcription yields no segments, no segment-tone call is
\* made, no insert into transcripts or emotions is performed and the
\* response's emotion.segmentEmotions is empty
C13_NoSegmentsSkipsSegmentTone ==
  \A r \in Reqs :
    (TranscriptionDone(r) /\ segments[r] = <<>>) =>
      /\ ~Logged(r, "call:segtone")
      /\ ~Logged(r, "insert:transcripts")
      /\ ~Logged(r, "insert:emotions")
      /\ response[r].status = 200 => response[r].segmentEmotions = <<>>
C13_Witness ==
  \E r \in Reqs :
    /\ TranscriptionDone(r) /\ segments[r] = <<>>
    /\ response[r].status = 200

Emotions5 == {"happy", "neutral", "stressed", "angry", "confident"}
CallsAndInsertSucceeded(r) ==
  /\ TranscriptionDone(r)
  /\ faults[r] \cap {"overall:throw", "segtone:throw", "summary:throw",
                     "meeting:error", "meeting:norow"} = {}
\* the rows of table t written by request r, in the table's order
RowsBy(t, r) == LET ByR(x) == x.by = r IN SelectSeq(t, ByR)
\* the last item of segmentEmotionsForDB whose segment_index is i, 0 if none
LastEntryFor(r, i) ==
  LET ks == {k \in 1..Len(segmentEmotionsForDB[r]) :
               segmentEmotionsForDB[r][k].segment_index = JNum(i)}
  IN IF ks = {} THEN 0 ELSE CHOOSE k \in ks : \A j \in ks : j <= k

\* C14: when the summary/task content fails to parse, the summaries insert is
\* still made, with all four lists empty, no tasks insert is made, and the
\* response is HTTP 200 with an empty summary and an empty task list
C14_SummaryParseFailureDegrades ==
  \A r \in Reqs :
    "summary:badjson" \in faults[r] =>
      /\ summary[r].bullets = 0 /\ summary[r].decisions = 0
      /\ summary[r].risks = 0 /\ summary[r].followUpQuestions = 0
      /\ tasks[r] = 0
      /\ pc[r] \in {"summaries", "tasks", "cleanup", "respond", "done"}
      /\ pc[r] # "summaries" => Logged(r, "insert:summaries")
      /\ (pc[r] # "summaries" /\ "summaries:error" \notin faults[r]) =>
           Len(RowsBy(summaries, r)) = 1
      /\ \A k \in 1..Len(RowsBy(summaries, r)) :
           LET x == RowsBy(summaries, r)[k].summary IN
             x.bullets = 0 /\ x.decisions = 0 /\ x.risks = 0
               /\ x.followUpQuestions = 0
      /\ ~Logged(r, "insert:tasks") /\ RowsBy(taskRows, r) = <<>>
      /\ pc[r] = "done" =>
           /\ response[r].status = 200
           /\ response[r].summary.bullets = 0 /\ response[r].summary.decisions = 0
           /\ response[r].summary.risks = 0
           /\ response[r].summary.followUpQuestions = 0
           /\ response[r].tasks = 0
C14_Witness ==
  \E r \in Reqs :
    /\ "summary:badjson" \in faults[r]
    /\ Len(RowsBy(summaries, r)) = 1
    /\ pc[r] = "done" /\ response[r].status = 200

\* C15: every HTTP 500 response (transcription failure, meetings insert
\* failure) has a body with both an error field and a details field
C15_FatalBodyHasErrorAndDetails ==
  \A r \in Reqs :
    response[r].status = 500 => response[r].error # "" /\ response[r].hasDetails

\* C16: a request whose transcription call succeeded attempts exactly one
\* meetings insert, and its meetings row is never changed afterwards
C16_ExactlyOneMeetingInsert ==
  \A r \in Reqs :
    /\ Count(r, "insert:meetings") <= 1
    /\ Cardinality(MeetingsOf(r)) <= 1
    /\ (TranscriptionDone(r) /\ pc[r] = "done") => Count(r, "insert:meetings") = 1

C18_DominantEmotionInEnumeration ==
  \A r \in Reqs :
    response[r].status = 200 =>
      \/ response[r].dominantEmotion = JNull
      \/ \E e \in Emotions5 : response[r].dominantEmotion = JStr(e)

\* C19: when the transcription, every analysis call and the meetings insert
\* succeed, the request ends with HTTP 200 and the response's meetingId is the
\* identifier the meetings insert returned, in each variant of the handler
C19_SuccessReturnsMeetingId ==
  \A r \in Reqs :
    (CallsAndInsertSucceeded(r) /\ pc[r] = "done") =>
      /\ response[r].status = 200
      /\ \E m \in MeetingsOf(r) : m.id = response[r].meetingId

\* C20: the transcripts insert writes one row per segment, in segment order;
\* the row of segment i carries the emotion and score of the last analyzer
\* entry whose index is i, and null and null when there is none
C20_TranscriptRowsMatchEntries ==
  \A r \in Reqs :
    LET rows == RowsBy(transcripts, r) IN
      (Logged(r, "insert:transcripts") /\ "transcripts:error" \notin faults[r]
         /\ pc[r] # "transcripts") =>
        /\ Len(rows) = Len(segments[r])
        /\ \A k \in 1..Len(rows) :
             LET e == LastEntryFor(r, k - 1) IN
               /\ rows[k].index = k - 1
               /\ rows[k].start = segments[r][k].start
               /\ rows[k].emotion =
                    IF e = 0 THEN JNull ELSE segmentEmotionsForDB[r][e].emotion
               /\ rows[k].emotion_score =
                    IF e = 0 THEN JNull ELSE segmentEmotionsForDB[r][e].score

\* C22: for a request answered 200 whose overall-tone analysis produced a
\* non-null score, the mood_score of its meetings row equals the moodScore of
\* its response
C22_MoodScoreOneScale ==
  \A r \in Reqs :
    (response[r].status = 200 /\ ~Nullish(response[r].moodScore)) =>
      \A m \in MeetingsOf(r) : m.mood_score = response[r].moodScore

\* C23: a request answered with HTTP 500 has persisted no meetings row and no
\* dependent row
C23_No500AfterWrite ==
  \A r \in Reqs :
    response[r].status = 500 =>
      /\ MeetingsOf(r) = {}
      /\ \A x \in Dependents : x.by # r

\* C24: the emotions rows of a request hold at most one row per segment
\* index, and no more rows than the transcript has segments
C24_OneEmotionRowPerIndex ==
  \A r \in Reqs :
    LET rows == RowsBy(emotions, r) IN
      /\ \A i, j \in 1..Len(rows) :
           rows[i].segment_index = rows[j].segment_index => i = j
      /\ Len(rows) <= Len(segments[r])

\* C25: for every emotions row of a request, the transcripts row of the
\* segment with that index carries the same emotion and the same score
C25_TranscriptsAgreeWithEmotions ==
  \A r \in Reqs :
    \A e \in Rows(RowsBy(emotions, r)), t \in Rows(RowsBy(transcripts, r)) :
      e.segment_index = JNum(t.index) =>
        t.emotion = e.emotion /\ t.emotion_score = e.score

\* ------------------------------------------------- two concurrent requests
\* Express runs the handler for every request it receives; a handler gives up
\* the thread at each await, so the stages of two requests interleave freely.
\* The inputs are narrowed to keep the product of two requests small: what the
\* analyzers and the store can answer in full is explored by Spec.
PairSegs == 1
PairEntries == 1
\* the failures a request may meet here: the two that end it early
PairFaults == {"transcribe:throw", "meeting:error"}
\* the handler versions already serving a request: one server runs one version
Served == {variant[q] : q \in {q \in Reqs : pc[q] # "idle"}}
\* the outcome of a step lies within the narrowed inputs
Admitted(r) ==
  /\ faults'[r] \subseteq PairFaults
  /\ transcriptText'[r] = ""
  /\ tasks'[r] \in {0, MaxTasks}
  /\ Len(segments'[r]) <= PairSegs
  /\ Len(segmentEmotionsForDB'[r]) <= PairEntries
  /\ \A k \in 1..Len(segmentEmotionsForDB'[r]) :
       ValidIndex(r, segmentEmotionsForDB'[r][k].segment_index)
\* a request with a file arrives; requests are interchangeable, so request 1
\* is the first to arrive
PairArrive(r) ==
  /\ Arrive(r, IF Served = {} THEN Variants ELSE Served)
  /\ hasFile'[r]
  /\ \A q \in Reqs : q < r => pc[q] # "idle"
PairNext ==
  \/ \E r \in Reqs : PairArrive(r)
  \/ \E r \in Reqs : CheckFile(r)
  \/ \E r \in Reqs : Transcribe(r) /\ Admitted(r)
  \/ \E r \in Reqs : OverallTone(r) /\ Admitted(r)
  \/ \E r \in Reqs : SegmentTone(r) /\ Admitted(r)
  \/ \E r \in Reqs : CreateMeeting(r) /\ Admitted(r)
  \/ \E r \in Reqs : InsertTranscripts(r) /\ Admitted(r)
  \/ \E r \in Reqs : InsertEmotions(r) /\ Admitted(r)
  \/ \E r \in Reqs : SummaryCall(r) /\ Admitted(r)
  \/ \E r \in Reqs : InsertSummary(r) /\ Admitted(r)
  \/ \E r \in Reqs : InsertTasks(r) /\ Admitted(r)
  \/ \E r \in Reqs : Cleanup(r)
  \/ \E r \in Reqs : Respond(r)
  \/ \E r \in Reqs : Catch(r)
  \/ \E r \in Reqs : RespondError(r)
  \/ \E p \in Paths : UnlinkComplete(p)
PairSpec == Init /\ [][PairNext]_vars

\* C21: two requests that each carry a file hold distinct temporary paths; a
\* request's file stays on storage until that request itself starts its
\* delete; every dependent row of a request carries the identifier the
\* meetings insert returned to that request, and so does its 200 response
C21_ConcurrentRequestsIsolated ==
  \A r \in Reqs :
    /\ \A q \in Reqs \ {r} :
         (hasFile[r] /\ hasFile[q]) => fixedPath[r] # fixedPath[q]
    /\ (hasFile[r] /\ ~Logged(r, "unlink")) => fixedPath[r] \in storage
    /\ \A x \in Dependents :
         x.by = r =>
           /\ x.meeting_id = meetingId[r]
           /\ \E m \in MeetingsOf(r) : m.id = x.meeting_id
    /\ response[r].status = 200 =>
         \E m \in MeetingsOf(r) : m.id = response[r].meetingId
\* both requests wrote dependent rows and were answered 200, the later
\* arrival got the earlier identifier, and one file is gone while the other
\* is still stored
C21_Witness ==
  /\ \A r \in Reqs :
       /\ response[r].status = 200
       /\ \E x \in Rows(transcripts) : x.by = r
       /\ \E x \in Rows(summaries) : x.by = r
  /\ \E m1 \in MeetingsOf(1), m2 \in MeetingsOf(2) : m2.id < m1.id
  /\ fixedPath[1] \notin storage /\ fixedPath[2] \in storage
====
